---- MODULE Spec2Model ----
(***************************************************************************)
(* Model of tianxin-bot: the protocol Adapter (src/app/bot/adapter.js) and *)
(* the PluginManager (src/app/plugin/loader.js).                           *)
(*                                                                         *)
(* Spec     : the Adapter over the `ws` transport (config.type = 'ws').    *)
(* SpecLive : the Adapter's reconnection, with fairness of the timers and  *)
(*            of the connections the gateway accepts.                      *)
(* SpecPM   : the PluginManager registry, load/unload and message dispatch *)
(*            with the Map's live iteration order.                         *)
(***************************************************************************)
EXTENDS Integers, Sequences, FiniteSets, TLC

\* ---------------------------------------------------------------- bounds
MaxSockets == 2      \* WebSocket objects created during one run
MaxCalls   == 2      \* send() calls that register a pending call
MaxAttempts == 4     \* WebSocket objects created during one run of SpecLive
MaxTasks   == 3      \* loadPlugin / unloadPlugin calls during one run of SpecPM
MaxDispatch == 1     \* handleMessage calls during one run of SpecPM

\* ------------------------------------------------------------- variables
VARIABLES
  ws,               \* this.ws: 0 is null, otherwise the index of a socket
  connected,        \* this.connected
  echoCounter,      \* this.echoCounter
  pendingRequests,  \* this.pendingRequests: echo -> call (its resolve/reject)
  sockets,          \* every WebSocket created so far, with its listeners
  reconnectTimers,  \* outstanding setTimeout callbacks of reconnect()
  issued,           \* history: issued[c] is the echo given to call c
  callTimer,        \* callTimer[c]: the timeout timer of call c
  settled,          \* history: settled[c] lists the resolve/reject calls on c
  abandoned,        \* history: calls that were pending when disconnect() ran
  last              \* history: what the last step did

adapterVars == <<ws, connected, echoCounter, pendingRequests, sockets,
                 reconnectTimers, issued, callTimer, settled, abandoned, last>>

VARIABLES
  plugins,          \* this.plugins: the entry list of the Map, in insertion order
  ninst,            \* history: number of plugin instances created so far
  tasks,            \* the loadPlugin / unloadPlugin calls made so far
  dispatch          \* the handleMessage calls made so far

pmVars == <<plugins, ninst, tasks, dispatch>>

VARIABLES
  parsed,           \* the last MessageProcessor.parseCommand call and its result
  adapted,          \* the last PluginSandbox.initializePlugin call and its result
  proc              \* the MessageProcessor.process call of the run

auxVars == <<parsed, adapted, proc>>

\* ------------------------------------------------------------ the frames
NoEcho == 0 - 1      \* payload.echo === undefined

CallIds == 1..MaxCalls
Echoes  == 0..MaxCalls

\* A decoded frame; wellFormed = FALSE stands for a frame JSON.parse rejects.
ResponseFrames ==
  [wellFormed : {TRUE}, echo : Echoes, status : {"ok", "failed"},
   post_type : {"none"}, meta_event_type : {"none"}, sub_type : {"none"}]
  \cup
  [wellFormed : {TRUE}, echo : Echoes, status : {"ok"},
   post_type : {"message"}, meta_event_type : {"none"}, sub_type : {"none"}]

EventFrames ==
  [wellFormed : {TRUE}, echo : {NoEcho}, status : {"none"},
   post_type : {"message", "notice"}, meta_event_type : {"none"},
   sub_type : {"none"}]
  \cup
  [wellFormed : {TRUE}, echo : {NoEcho}, status : {"none"},
   post_type : {"meta_event"}, meta_event_type : {"lifecycle", "heartbeat"},
   sub_type : {"connect", "enable"}]

MalformedFrames ==
  [wellFormed : {FALSE}, echo : {NoEcho}, status : {"none"},
   post_type : {"none"}, meta_event_type : {"none"}, sub_type : {"none"}]

Frames == ResponseFrames \cup EventFrames \cup MalformedFrames

NoFrame == [wellFormed |-> FALSE, echo |-> NoEcho, status |-> "none",
            post_type |-> "none", meta_event_type |-> "none",
            sub_type |-> "none"]

\* ------------------------------------------------------------- helpers
NewSocket(origin) == [st |-> "connecting", origin |-> origin, promise |-> "pending"]

\* the sockets created so far
Created == 1..Len(sockets)

Step(op, sock, call, frame, signals, outcome) ==
  [op |-> op, sock |-> sock, call |-> call, frame |-> frame,
   signals |-> signals, outcome |-> outcome]

\* Map.prototype.delete on the pending table
MapDelete(m, k) == [x \in (DOMAIN m) \ {k} |-> m[x]]

\* Map.prototype.set on the pending table
MapSet(m, k, v) == [x \in (DOMAIN m) \cup {k} |-> IF x = k THEN v ELSE m[x]]

EmptyMap == [x \in {} |-> 0]

\* the value of `this.echoCounter` after `this.echoCounter++`
NextEcho_stuck(c) == c

NextEcho(c) == c + 1

\* --------------------------------------------------------------- Init
\* PluginManager.constructor
InitPM ==
  /\ plugins = <<>>
  /\ ninst = 0
  /\ tasks = <<>>
  /\ dispatch = <<>>

\* ---------------------------------------------------------------------
\* MessageProcessor.parseCommand: a text is a sequence of characters
\* ---------------------------------------------------------------------

\* longest generated text
MaxTextLen == 4

Chars == {"#", " ", "a"}

\* "#echo hello world"
EchoText ==
  <<"#", "e", "c", "h", "o", " ", "h", "e", "l", "l", "o", " ",
    "w", "o", "r", "l", "d">>

\* "hello"
HelloText == <<"h", "e", "l", "l", "o">>

\* "#ping"
PingText == <<"#", "p", "i", "n", "g">>

RECURSIVE SeqsUpTo(_)
SeqsUpTo(n) ==
  IF n = 0 THEN {<<>>}
  ELSE LET shorter == SeqsUpTo(n - 1) IN
       shorter \cup {Append(t, c) : t \in shorter, c \in Chars}

Texts == SeqsUpTo(MaxTextLen) \cup {EchoText, HelloText, PingText}

\* config.bot.commandPrefix: ['#', '']
commandPrefix == << <<"#">>, <<>> >>

\* the character class \s
IsSpace(c) == c = " "

\* String.prototype.startsWith
startsWith(text, p) ==
  Len(text) >= Len(p) /\ SubSeq(text, 1, Len(p)) = p

\* String.prototype.slice(n)
slice(text, n) == SubSeq(text, n + 1, Len(text))

RECURSIVE trimStart(_)
trimStart(t) ==
  IF t # <<>> /\ IsSpace(Head(t)) THEN trimStart(Tail(t)) ELSE t

RECURSIVE trimEnd(_)
trimEnd(t) ==
  IF t # <<>> /\ IsSpace(t[Len(t)]) THEN trimEnd(SubSeq(t, 1, Len(t) - 1))
  ELSE t

\* String.prototype.trim
trim(t) == trimEnd(trimStart(t))

\* String.prototype.split(/\s+/): cur is the piece being read, acc the
\* pieces closed so far
RECURSIVE splitFrom(_, _, _)
splitFrom(t, cur, acc) ==
  IF t = <<>> THEN Append(acc, cur)
  ELSE IF IsSpace(Head(t)) THEN splitFrom(trimStart(t), <<>>, Append(acc, cur))
  ELSE splitFrom(Tail(t), Append(cur, Head(t)), acc)

split(t) == splitFrom(t, <<>>, <<>>)

\* the null result of parseCommand
NoCommand ==
  [isCommand |-> FALSE, command |-> <<>>, args |-> <<>>, prefix |-> <<>>]

\* the loop over the prefixes: the index of the first prefix the text starts
\* with, 0 when the loop ends with prefix still null
FirstPrefix(text) ==
  LET m == {i \in 1..Len(commandPrefix) : startsWith(text, commandPrefix[i])} IN
  IF m = {} THEN 0 ELSE CHOOSE i \in m : \A j \in m : i <= j

\* !prefix: null and the empty string are both falsy
Falsy(text, i) == i = 0 \/ commandPrefix[i] = <<>>

parseCommand(text) ==
  IF text = <<>> THEN NoCommand
  ELSE LET i == FirstPrefix(text) IN
       IF Falsy(text, i) THEN NoCommand
       ELSE LET commandText == trim(slice(text, Len(commandPrefix[i]))) IN
            IF commandText = <<>> THEN NoCommand
            ELSE LET parts == split(commandText) IN
                 [isCommand |-> TRUE, command |-> parts[1],
                  args |-> Tail(parts), prefix |-> commandPrefix[i]]

\* ---------------------------------------------------------------------
\* PluginSandbox.initializePlugin: a value is described by what the code
\* looks at, its typeof class and the functions it carries
\* ---------------------------------------------------------------------

\* the members adaptPluginObject reads as functions
Hooks == {"main", "onMessage", "onCommand", "onEvent", "onUnload"}

NoValue == [kind |-> "none", hooks |-> {}, ret |-> "none", retHooks |-> {}]

\* undefined, null, a falsy primitive (0, "", false), a truthy primitive, an
\* object with the members `hooks`, a function without members
PlainValues ==
  [kind : {"undefined", "null", "falsy", "truthy", "function"}, hooks : {{}},
   ret : {"none"}, retHooks : {{}}]
  \cup [kind : {"object"}, hooks : SUBSET Hooks, ret : {"none"}, retHooks : {{}}]

\* a factory function, described by the value it returns
Factories ==
  {[kind |-> "function", hooks |-> {}, ret |-> v.kind, retHooks |-> v.hooks] :
     v \in PlainValues}

Values == PlainValues \cup Factories

\* what loadPluginModule returns: module.exports of a CommonJS file, or the
\* namespace object of an ES module with its default export (undefined when
\* there is none) and its named function exports
Modules ==
  [esm : {FALSE}, value : Values, named : {{}}]
  \cup [esm : {TRUE}, value : Values, named : SUBSET Hooks]

NoModule == [esm |-> FALSE, value |-> NoValue, named |-> {}]

Truthy(v) == v.kind \in {"truthy", "object", "function"}

\* reading a property of null or undefined throws a TypeError
Nullish(v) == v.kind \in {"undefined", "null"}

\* the value a factory returns
Returns(v) ==
  [kind |-> IF v.ret = "none" THEN "undefined" ELSE v.ret, hooks |-> v.retHooks,
   ret |-> "none", retHooks |-> {}]

\* the results the onMessage of the adapted instance can end with
AdaptedOnMessage(plugin) ==
  IF "main" \in plugin.hooks THEN {"true", "other"}
  ELSE IF "onMessage" \in plugin.hooks THEN {"true", "other", "throw"}
  ELSE {"other"}

Adapted(outcome, onMessage) == [outcome |-> outcome, onMessage |-> onMessage]

\* PluginSandbox.adaptPluginObject
adaptPluginObject(plugin) ==
  IF Nullish(plugin) THEN Adapted("fail", {})
  ELSE Adapted("record", AdaptedOnMessage(plugin))

\* PluginSandbox.createPluginFromFunction
createPluginFromFunction(pluginFunction) ==
  adaptPluginObject(Returns(pluginFunction))

\* `pluginModule.default || pluginModule`
PluginExports(m) ==
  IF m.esm
    THEN IF Truthy(m.value) THEN m.value
         ELSE [kind |-> "object", hooks |-> m.named, ret |-> "none",
               retHooks |-> {}]
    ELSE m.value

\* PluginSandbox.initializePlugin; "fail" is a throw, which loadPlugin
\* catches to return false
initializePlugin(m) ==
  IF ~m.esm /\ Nullish(m.value) THEN Adapted("fail", {})
  ELSE LET pluginExports == PluginExports(m) IN
       IF pluginExports.kind = "function"
         THEN createPluginFromFunction(pluginExports)
       ELSE IF pluginExports.kind = "object"
         THEN adaptPluginObject(pluginExports)
       ELSE Adapted("stub", {"other"})

\* nothing parsed, adapted or processed yet
InitAux ==
  /\ parsed = [called |-> FALSE, text |-> <<>>, result |-> NoCommand]
  /\ adapted = [called |-> FALSE, module |-> NoModule,
                result |-> Adapted("none", {})]
  /\ proc = [pc |-> "idle", n |-> 0, messageType |-> "none", text |-> <<>>,
             isCommand |-> FALSE, outbound |-> <<>>]

Init ==
  /\ InitPM
  /\ InitAux
  /\ ws = 0
  /\ connected = FALSE
  /\ echoCounter = 0
  /\ pendingRequests = EmptyMap
  /\ sockets = <<>>
  /\ reconnectTimers = 0
  /\ issued = <<>>
  /\ callTimer = [c \in CallIds |-> "none"]
  /\ settled = [c \in CallIds |-> <<>>]
  /\ abandoned = {}
  /\ last = Step("init", 0, 0, NoFrame, <<>>, "none")


\* ------------------------------------------------- Adapter: connection
\* ws.close() seen from the socket: an open socket starts its closing
\* handshake, a connecting one has its handshake aborted.
CloseCalled(st) ==
  IF st = "open" THEN "closing"
  ELSE IF st = "connecting" THEN "aborted"
  ELSE st

\* Adapter.connectWebSocket: a new socket with the four listeners attached
connectWebSocket(origin, limit) ==
  LET s == Len(sockets) + 1 IN
  /\ s <= limit
  /\ sockets' = Append(sockets, NewSocket(origin))
  /\ ws' = s
  /\ last' = Step(origin, s, 0, NoFrame, <<>>, "connecting")

\* Adapter.connect with config.type = 'ws'
connect ==
  /\ UNCHANGED <<pmVars, auxVars>>
  /\ connectWebSocket("connect", MaxSockets)
  /\ UNCHANGED <<connected, echoCounter, pendingRequests, reconnectTimers,
                 issued, callTimer, settled, abandoned>>

\* the 'open' listener
wsOpen(s) ==
  /\ UNCHANGED <<pmVars, auxVars>>
  /\ s \in Created
  /\ sockets[s].st = "connecting"
  /\ connected' = TRUE
  /\ sockets' = [sockets EXCEPT ![s].st = "open", ![s].promise = "resolved"]
  /\ last' = Step("open", s, 0, NoFrame, <<>>, "resolved")
  /\ UNCHANGED <<ws, echoCounter, pendingRequests, reconnectTimers,
                 issued, callTimer, settled, abandoned>>

\* number of reconnect() calls made when socket s fails to connect: one by
\* the 'close' listener, one more by the catch of reconnect() when the
\* 'error' listener rejected the promise of a reconnect attempt
ReconnectsOnFail_none(s) == 0

ReconnectsOnFail(s) ==
  IF sockets[s].origin = "reconnect" /\ ~connected THEN 2 ELSE 1

\* a socket that cannot be established: `ws` emits 'error' and then 'close'
wsConnectFail(s) ==
  /\ UNCHANGED <<pmVars, auxVars>>
  /\ sockets[s].st \in {"connecting", "aborted"}
  /\ sockets' = [sockets EXCEPT ![s].st = "closed",
                   ![s].promise = IF connected THEN @ ELSE "rejected"]
  /\ connected' = FALSE
  /\ reconnectTimers' = reconnectTimers + ReconnectsOnFail(s)
  /\ last' = Step("connect-fail", s, 0, NoFrame, <<>>,
                  IF connected THEN "none" ELSE "rejected")
  /\ UNCHANGED <<ws, echoCounter, pendingRequests, issued, callTimer,
                 settled, abandoned>>

\* the 'close' listener of an established socket
wsClose(s) ==
  /\ UNCHANGED <<pmVars, auxVars>>
  /\ sockets[s].st \in {"open", "closing"}
  /\ sockets' = [sockets EXCEPT ![s].st = "closed"]
  /\ connected' = FALSE
  /\ reconnectTimers' = reconnectTimers + 1
  /\ last' = Step("close", s, 0, NoFrame, <<>>,
                  IF sockets[s].st = "open" THEN "unexpected" ELSE "requested")
  /\ UNCHANGED <<ws, echoCounter, pendingRequests, issued, callTimer,
                 settled, abandoned>>

\* the setTimeout callback of Adapter.reconnect, with at most `limit` sockets
reconnectCallback(limit) ==
  /\ UNCHANGED <<pmVars, auxVars>>
  /\ reconnectTimers > 0
  /\ reconnectTimers' = reconnectTimers - 1
  /\ IF ~connected
       THEN connectWebSocket("reconnect", limit)
       ELSE /\ last' = Step("reconnect", 0, 0, NoFrame, <<>>, "skipped")
            /\ UNCHANGED <<ws, sockets>>
  /\ UNCHANGED <<connected, echoCounter, pendingRequests, issued, callTimer,
                 settled, abandoned>>

reconnectTimerFire == reconnectCallback(MaxSockets)

\* the pending table after pendingRequests.clear()
Cleared_keep(m) == m

Cleared(m) == EmptyMap

\* Adapter.disconnect
disconnect ==
  /\ UNCHANGED <<pmVars, auxVars>>
  /\ sockets' = IF ws # 0
                  THEN [sockets EXCEPT ![ws].st = CloseCalled(@)]
                  ELSE sockets
  /\ ws' = 0
  /\ connected' = FALSE
  /\ abandoned' = abandoned \cup {pendingRequests[e] : e \in DOMAIN pendingRequests}
  /\ pendingRequests' = Cleared(pendingRequests)
  /\ last' = Step("disconnect", ws, 0, NoFrame, <<>>, "none")
  /\ UNCHANGED <<echoCounter, reconnectTimers, issued, callTimer, settled>>

\* ------------------------------------------------------ Adapter: calls
\* ws.send throws on a null socket, on a socket that is still connecting,
\* and JSON.stringify throws on params it cannot encode
SendThrows(encodable) ==
  \/ ~encodable
  \/ ws = 0
  \/ (ws # 0 /\ sockets[ws].st = "connecting")

\* the body of Adapter.send
sendRequest(encodable) ==
  /\ IF ~connected
       THEN /\ last' = Step("send", ws, 0, NoFrame, <<>>, "not-connected")
            /\ UNCHANGED <<ws, connected, echoCounter, pendingRequests, sockets,
                           reconnectTimers, issued, callTimer, settled, abandoned>>
       ELSE LET c == Len(issued) + 1
                echo == echoCounter IN
            /\ c \in CallIds
            /\ echoCounter' = NextEcho(echoCounter)
            /\ issued' = Append(issued, echo)
            /\ IF SendThrows(encodable)
                 THEN /\ pendingRequests' =
                           MapDelete(MapSet(pendingRequests, echo, c), echo)
                      /\ settled' = [settled EXCEPT ![c] = Append(@, "send-error")]
                      /\ UNCHANGED callTimer
                      /\ last' = Step("send", ws, c, NoFrame, <<>>, "send-error")
                 ELSE /\ pendingRequests' = MapSet(pendingRequests, echo, c)
                      /\ callTimer' = [callTimer EXCEPT ![c] = "armed"]
                      /\ UNCHANGED settled
                      /\ last' = Step("send", ws, c, NoFrame, <<>>, "pending")
            /\ UNCHANGED <<ws, connected, sockets, reconnectTimers, abandoned>>

\* Adapter.send called on its own
send(encodable) ==
  /\ UNCHANGED <<pmVars, auxVars>>
  /\ sendRequest(encodable)

\* the pending table after the timeout callback found its echo in it
AfterTimeout_keep(m, echo) == m

AfterTimeout(m, echo) == MapDelete(m, echo)

\* the setTimeout callback of Adapter.send for call c
timeout(c) ==
  /\ UNCHANGED <<pmVars, auxVars>>
  /\ callTimer[c] = "armed"
  /\ callTimer' = [callTimer EXCEPT ![c] = "fired"]
  /\ IF issued[c] \in DOMAIN pendingRequests
       THEN /\ pendingRequests' = AfterTimeout(pendingRequests, issued[c])
            /\ settled' = [settled EXCEPT ![c] = Append(@, "timeout")]
            /\ last' = Step("timeout", 0, c, NoFrame, <<>>, "timeout")
       ELSE /\ UNCHANGED <<pendingRequests, settled>>
            /\ last' = Step("timeout", 0, c, NoFrame, <<>>, "none")
  /\ UNCHANGED <<ws, connected, echoCounter, sockets, reconnectTimers,
                 issued, abandoned>>

\* ----------------------------------------------------- Adapter: frames
\* the entries of the pending table a response frame with this echo settles
Matched_any(m, echo) == IF echo \in DOMAIN m THEN {echo} ELSE DOMAIN m

Matched(m, echo) == IF echo \in DOMAIN m THEN {echo} ELSE {}

\* the pending table after a response matched the entry `echo`
AfterResponse_keep(m, echo) == m

AfterResponse(m, echo) == MapDelete(m, echo)

\* the signals emitted for a frame that carries no echo
Demux(f) ==
  IF f.post_type = "message" THEN <<"message">>
  ELSE IF f.post_type = "meta_event" /\ f.meta_event_type = "lifecycle"
    THEN IF f.sub_type = "connect" THEN <<"self-id">> ELSE <<>>
  ELSE <<"event">>

RECURSIVE SettleAll(_, _, _, _)
\* pending.resolve / pending.reject on each of the matched entries
SettleAll(st, m, keys, outcome) ==
  IF keys = {} THEN st
  ELSE LET k == CHOOSE x \in keys : TRUE IN
       SettleAll([st EXCEPT ![m[k]] = Append(@, outcome)], m, keys \ {k}, outcome)

\* the body of Adapter.handleWebSocketMessage
frameReceived(s, f) ==
  /\ sockets[s].st \in {"open", "closing"}
  /\ IF ~f.wellFormed
       THEN /\ last' = Step("frame", 0, 0, f, <<>>, "logged-error")
            /\ UNCHANGED <<pendingRequests, settled>>
     ELSE IF f.echo # NoEcho
       THEN LET hit == Matched(pendingRequests, f.echo)
                outcome == IF f.status = "ok" THEN "resolved" ELSE "remote-error" IN
            IF hit # {}
              THEN /\ pendingRequests' = AfterResponse(pendingRequests, f.echo)
                   /\ settled' = SettleAll(settled, pendingRequests, hit, outcome)
                   /\ last' = Step("frame", 0, 0, f, <<>>, outcome)
              ELSE /\ last' = Step("frame", 0, 0, f, <<>>, "dropped")
                   /\ UNCHANGED <<pendingRequests, settled>>
     ELSE /\ last' = Step("frame", 0, 0, f, Demux(f), "emitted")
          /\ UNCHANGED <<pendingRequests, settled>>
  /\ UNCHANGED <<ws, connected, echoCounter, sockets, reconnectTimers,
                 issued, callTimer, abandoned>>

\* Adapter.handleWebSocketMessage, called by the 'message' listener, with
\* no listener on the signals it emits
handleWebSocketMessage(s, f) ==
  /\ UNCHANGED <<pmVars, auxVars>>
  /\ frameReceived(s, f)

\* ------------------------------------------------------ specification
vars == <<adapterVars, pmVars, auxVars>>

Next ==
  \/ connect
  \/ \E s \in Created : wsOpen(s)
  \/ \E s \in Created : wsConnectFail(s)
  \/ \E s \in Created : wsClose(s)
  \/ reconnectTimerFire
  \/ disconnect
  \/ \E encodable \in BOOLEAN : send(encodable)
  \/ \E c \in CallIds : timeout(c)
  \/ \E s \in Created, f \in Frames : handleWebSocketMessage(s, f)

Spec == Init /\ [][Next]_vars

\* ------------------------------------------- reconnection, with fairness
\* The gateway refuses or drops at most FailureBudget connections and accepts
\* every later one; each failure schedules at most two attempts.
FailureBudget == MaxAttempts \div 2

Failures == Cardinality({s \in Created : sockets[s].st = "closed"})

\* Bot.start: the one connect() call of a run
startConnect ==
  /\ UNCHANGED <<pmVars, auxVars>>
  /\ Len(sockets) = 0
  /\ connectWebSocket("connect", MaxAttempts)
  /\ UNCHANGED <<connected, echoCounter, pendingRequests, reconnectTimers,
                 issued, callTimer, settled, abandoned>>

gatewayRefuses(s) == Failures < FailureBudget /\ wsConnectFail(s)

gatewayDrops(s) == Failures < FailureBudget /\ wsClose(s)

retryTimerFire == reconnectCallback(MaxAttempts)

NextLive ==
  \/ startConnect
  \/ \E s \in Created : wsOpen(s)
  \/ \E s \in Created : gatewayRefuses(s)
  \/ \E s \in Created : gatewayDrops(s)
  \/ retryTimerFire
  \/ \E encodable \in BOOLEAN : send(encodable)
  \/ \E c \in CallIds : timeout(c)
  \/ \E s \in Created, f \in Frames : handleWebSocketMessage(s, f)

\* timers of the event loop fire, and a connection the gateway does not
\* refuse is established
SpecLive ==
  /\ Init
  /\ [][NextLive]_vars
  /\ WF_vars(retryTimerFire)
  /\ \A s \in 1..MaxAttempts : WF_vars(wsOpen(s))

\* ============================================================== claims
Pending == {pendingRequests[e] : e \in DOMAIN pendingRequests}

\* C1: the echoes given to the calls that registered a pending entry are
\* pairwise distinct, in increasing order of issue, and the counter stays
\* above every echo issued so far, also after a disconnect and a new
\* connection.
C1_EchoUnique ==
  /\ \A i, j \in 1..Len(issued) : i < j => issued[i] < issued[j]
  /\ \A i \in 1..Len(issued) : issued[i] < echoCounter

\* a call abandoned by disconnect(), then a second call on a new connection
C1_Witness ==
  /\ Len(issued) = 2
  /\ 1 \in abandoned
  /\ 2 \in Pending
  /\ Len(sockets) = 2

\* C2 as stated: once the timeout of a call has elapsed, its entry is gone
\* and the call was settled, by the timeout error unless a response came
\* first.
C2_Original ==
  \A c \in CallIds :
    callTimer[c] = "fired" =>
      /\ issued[c] \notin DOMAIN pendingRequests
      /\ settled[c] \in {<<"timeout">>, <<"resolved">>, <<"remote-error">>}

\* C2 amended: once the timeout of a call that disconnect() did not abandon
\* has elapsed, its entry is gone and the call was settled exactly once, by
\* the timeout error unless a response came first; a response that arrives
\* after the timeout adds no second outcome.
C2_Timeout ==
  \A c \in CallIds :
    (callTimer[c] = "fired" /\ c \notin abandoned) =>
      /\ issued[c] \notin DOMAIN pendingRequests
      /\ settled[c] \in {<<"timeout">>, <<"resolved">>, <<"remote-error">>}

\* a timed-out call whose response arrives late and is dropped
C2_Witness ==
  \E c \in 1..Len(issued) :
    /\ settled[c] = <<"timeout">>
    /\ last.op = "frame"
    /\ last.frame.echo = issued[c]
    /\ last.outcome = "dropped"

\* C3: a step that handles a response frame whose echo is not in the pending
\* table is dropped without an error, and leaves the pending table, the
\* connection state, the socket and every call's outcome unchanged.
C3_UnmatchedDropped ==
  [][(/\ last'.op = "frame"
      /\ last'.frame.wellFormed
      /\ last'.frame.echo # NoEcho
      /\ last'.frame.echo \notin DOMAIN pendingRequests)
     => (/\ last'.outcome = "dropped"
         /\ UNCHANGED <<pendingRequests, settled, connected, ws, sockets>>)]_vars

\* an unmatched response dropped while another call is pending
C3_Witness ==
  /\ last.op = "frame"
  /\ last.outcome = "dropped"
  /\ pendingRequests # EmptyMap
  /\ connected

\* C4: no call ever sees more than one resolve-or-reject.
C4_AtMostOnce == \A c \in CallIds : Len(settled[c]) <= 1

\* a resolved call whose timer has fired and whose response came twice
C4_Witness ==
  \E c \in 1..Len(issued) :
    /\ settled[c] = <<"resolved">>
    /\ callTimer[c] = "fired"
    /\ last.op = "frame"
    /\ last.frame.echo = issued[c]
    /\ last.outcome = "dropped"

\* a call rejected by a failing transport send
C4_WitnessSendError ==
  \E c \in 1..Len(issued) : settled[c] = <<"send-error">>

\* C5: right after disconnect() the pending table is empty and the adapter
\* is not connected, and a call that was pending when disconnect() ran has
\* no outcome, whatever arrives or fires later.
C5_DisconnectAbandons ==
  /\ last.op = "disconnect" => (pendingRequests = EmptyMap /\ ~connected)
  /\ \A c \in abandoned : settled[c] = <<>>

\* an abandoned call whose timer has fired and whose response arrived late
C5_Witness ==
  \E c \in abandoned :
    /\ callTimer[c] = "fired"
    /\ last.op = "frame"
    /\ last.frame.echo = issued[c]
    /\ last.frame.status = "ok"

\* C6 as stated: after an unexpected close of the connected socket the
\* adapter is not connected and the pending table holds no call.
C6_CloseClearsPending ==
  (last.op = "close" /\ last.outcome = "unexpected") =>
    (~connected /\ pendingRequests = EmptyMap)

\* C8 as stated: when a socket opened by connect() cannot be established,
\* the promise of connect() is rejected and no reconnect timer is scheduled.
C8_ConnectFailNoRetry ==
  [][\A s \in Created :
       (wsConnectFail(s) /\ sockets[s].origin = "connect") =>
         (sockets'[s].promise = "rejected" /\ reconnectTimers' = reconnectTimers)]_vars

\* the one signal C9 expects for a frame without echo
ExpectedSignal(f) ==
  IF f.post_type = "meta_event" /\ f.meta_event_type = "lifecycle"
       /\ f.sub_type = "connect" THEN "self-id"
  ELSE IF f.post_type = "message" THEN "message"
  ELSE "event"

\* C9 as stated: a well-formed frame with an echo is handled as a response
\* and emits nothing; one without an echo emits exactly one signal: self-id
\* for lifecycle/connect, message for a message frame, event for the rest.
C9_DemuxExactlyOne ==
  (last.op = "frame" /\ last.frame.wellFormed) =>
    IF last.frame.echo # NoEcho
      THEN /\ last.signals = <<>>
           /\ last.outcome \in {"resolved", "remote-error", "dropped"}
      ELSE last.signals = <<ExpectedSignal(last.frame)>>

\* a reconnect attempt that has just failed
FailedAttempt ==
  /\ last.op = "connect-fail"
  /\ sockets[last.sock].origin = "reconnect"

\* C7: a failed reconnect attempt leaves the adapter disconnected with
\* another attempt scheduled, and after an unexpected close or a failed
\* attempt the adapter is eventually connected again, provided the gateway
\* from some point on accepts every connection.
C7_RetriesUntilConnected ==
  /\ [](FailedAttempt => (~connected /\ reconnectTimers > 0))
  /\ (last.op = "close") ~> connected
  /\ FailedAttempt ~> connected

\* connected again after an unexpected close and a failed reconnect attempt
C7_Witness ==
  /\ connected
  /\ last.op = "open"
  /\ sockets[1].st = "closed" /\ sockets[1].promise = "resolved"
  /\ \E s \in Created : /\ sockets[s].origin = "reconnect"
                        /\ sockets[s].promise = "rejected"

\* ============================================== PluginManager (SpecPM)
\* the plugin identities getPluginId can return in a run
PluginIds == {"A", "B", "C"}

\* what a handler call can end with: literal true, any other value, a throw
Results == {"true", "other", "throw"}

\* an entry of the Map that was deleted: iterators skip it
Tombstone == [id |-> "-", inst |-> 0, shape |-> "none", live |-> FALSE]

\* Map.prototype.has
Has(m, id) == \E i \in 1..Len(m) : m[i].live /\ m[i].id = id

IndexOf(m, id) == CHOOSE i \in 1..Len(m) : m[i].live /\ m[i].id = id

\* Map.prototype.get
Get(m, id) == m[IndexOf(m, id)]

\* Map.prototype.delete
RegDelete(m, id) ==
  IF Has(m, id) THEN [m EXCEPT ![IndexOf(m, id)] = Tombstone] ELSE m

\* Map.prototype.set: an existing key keeps its place, a new one goes last
RegSet(m, id, rec) ==
  IF Has(m, id) THEN [m EXCEPT ![IndexOf(m, id)] = rec] ELSE Append(m, rec)

\* the Map iterator: the first entry at or after position `from`, 0 if none
NextEntry(m, from) ==
  LET c == {i \in from..Len(m) : m[i].live} IN
  IF c = {} THEN 0 ELSE CHOOSE i \in c : \A j \in c : i <= j

\* the adapted instance has an onUnload / onCommand function; the stub of
\* initializePlugin has only onMessage
HasHook(shape) == shape = "record"

\* inst: the instance the task has registered; hook: the instance whose
\* onUnload the task has called (0: none)
NewTask(kind, id, pc, inst, result) ==
  [kind |-> kind, id |-> id, pc |-> pc, inst |-> inst, hook |-> inst,
   result |-> result]

\* PluginManager.loadPlugin up to its first suspension, in a run of at most
\* `limit` load and unload calls
loadPluginUpTo(id, limit) ==
  /\ Len(tasks) < limit
  /\ IF Has(plugins, id)
       THEN IF HasHook(Get(plugins, id).shape)
              THEN /\ tasks' = Append(tasks, NewTask("load", id, "awaitUnload",
                                                     Get(plugins, id).inst, "none"))
                   /\ UNCHANGED plugins
              ELSE /\ plugins' = RegDelete(plugins, id)
                   /\ tasks' = Append(tasks, NewTask("load", id, "awaitModule", 0, "none"))
       ELSE /\ tasks' = Append(tasks, NewTask("load", id, "awaitModule", 0, "none"))
            /\ UNCHANGED plugins
  /\ UNCHANGED <<ninst, dispatch, adapterVars, auxVars>>

loadPlugin(id) == loadPluginUpTo(id, MaxTasks)

\* the 'unlink' listener: PluginManager.unloadPlugin up to its suspension
unloadPlugin(id) ==
  /\ Len(tasks) < MaxTasks
  /\ IF ~Has(plugins, id)
       THEN /\ tasks' = Append(tasks, NewTask("unload", id, "done", 0, "false"))
            /\ UNCHANGED plugins
       ELSE IF HasHook(Get(plugins, id).shape)
              THEN /\ tasks' = Append(tasks, NewTask("unload", id, "awaitUnload",
                                                     Get(plugins, id).inst, "none"))
                   /\ UNCHANGED plugins
              ELSE /\ plugins' = RegDelete(plugins, id)
                   /\ tasks' = Append(tasks, NewTask("unload", id, "done", 0, "true"))
  /\ UNCHANGED <<ninst, dispatch, adapterVars, auxVars>>

\* unloadPlugin resumed when onUnload has returned ("ok") or thrown
onUnloadReturn(t, outcome) ==
  /\ t \in 1..Len(tasks)
  /\ tasks[t].pc = "awaitUnload"
  /\ plugins' = IF outcome = "ok" THEN RegDelete(plugins, tasks[t].id) ELSE plugins
  /\ tasks' = [tasks EXCEPT ![t] =
                 IF tasks[t].kind = "load"
                   THEN [@ EXCEPT !.pc = "awaitModule"]
                   ELSE [@ EXCEPT !.pc = "done",
                           !.result = IF outcome = "ok" THEN "true" ELSE "false"]]
  /\ UNCHANGED <<ninst, dispatch, adapterVars, auxVars>>

\* loadPlugin resumed when loadPluginModule and initializePlugin are through:
\* an adapted record, the inert stub, or a failure that loadPlugin catches
moduleReturn(t, outcome) ==
  /\ t \in 1..Len(tasks)
  /\ tasks[t].pc = "awaitModule"
  /\ IF outcome = "fail"
       THEN /\ tasks' = [tasks EXCEPT ![t].pc = "done", ![t].result = "false"]
            /\ UNCHANGED <<plugins, ninst>>
       ELSE /\ ninst' = ninst + 1
            /\ plugins' = RegSet(plugins, tasks[t].id,
                                 [id |-> tasks[t].id, inst |-> ninst + 1,
                                  shape |-> outcome, live |-> TRUE])
            /\ tasks' = [tasks EXCEPT ![t].pc = "done", ![t].inst = ninst + 1,
                                      ![t].result = "true"]
  /\ UNCHANGED <<dispatch, adapterVars, auxVars>>

\* ---------------------------------------------- PluginManager: dispatch
Call(pos, e, h) ==
  [pos |-> pos, id |-> e.id, inst |-> e.inst, shape |-> e.shape, h |-> h,
   res |-> "running"]

\* `result === true`
IsHandled_never(r) == FALSE

IsHandled(r) == r = "true"

\* the for-of loop of handleMessage moving to the first entry at or after
\* `from`: it calls that entry's onMessage, or returns `handled`
Visit(d, from) ==
  LET i == NextEntry(plugins, from) IN
  IF i = 0
    THEN [d EXCEPT !.pc = "done"]
    ELSE [d EXCEPT !.pc = "awaitMsg", !.idx = i, !.cur = plugins[i],
                   !.log = Append(@, Call(i, plugins[i], "onMessage"))]

Returned(log, r) == [log EXCEPT ![Len(log)].res = r]

\* the catch of handleMessage: the error is logged and the loop goes on
AfterThrow_abort(d) == [d EXCEPT !.pc = "threw"]

AfterThrow(d) == Visit(d, d.idx + 1)

\* PluginManager.handleMessage up to its first suspension
StartDispatch(isCommand) ==
  Visit([pc |-> "start", idx |-> 0, cur |-> Tombstone,
         isCommand |-> isCommand, handled |-> FALSE, log |-> <<>>], 1)

\* handleMessage called on its own, in a run of at most `limit` calls
handleMessageUpTo(isCommand, limit) ==
  /\ Len(dispatch) < limit
  /\ dispatch' = Append(dispatch, StartDispatch(isCommand))
  /\ UNCHANGED <<plugins, ninst, tasks, adapterVars, auxVars>>

handleMessage(isCommand) == handleMessageUpTo(isCommand, MaxDispatch)

\* handleMessage resumed when the awaited onMessage has ended with r
onMessageReturn(n, r) ==
  /\ n \in 1..Len(dispatch)
  /\ dispatch[n].pc = "awaitMsg"
  /\ ~HasHook(dispatch[n].cur.shape) => r = "other"
  /\ LET d == [dispatch[n] EXCEPT !.log = Returned(@, r)] IN
     dispatch' = [dispatch EXCEPT ![n] =
       IF r = "throw" THEN AfterThrow(d)
       ELSE IF IsHandled(r) THEN [d EXCEPT !.handled = TRUE, !.pc = "done"]
       ELSE IF d.isCommand /\ HasHook(d.cur.shape)
         THEN [d EXCEPT !.pc = "awaitCmd",
                        !.log = Append(@, Call(d.idx, d.cur, "onCommand"))]
       ELSE Visit(d, d.idx + 1)]
  /\ UNCHANGED <<plugins, ninst, tasks, adapterVars, auxVars>>

\* handleMessage resumed when the awaited onCommand has ended with r
onCommandReturn(n, r) ==
  /\ n \in 1..Len(dispatch)
  /\ dispatch[n].pc = "awaitCmd"
  /\ LET d == [dispatch[n] EXCEPT !.log = Returned(@, r)] IN
     dispatch' = [dispatch EXCEPT ![n] =
       IF r = "throw" THEN AfterThrow(d)
       ELSE IF IsHandled(r) THEN [d EXCEPT !.handled = TRUE, !.pc = "done"]
       ELSE Visit(d, d.idx + 1)]
  /\ UNCHANGED <<plugins, ninst, tasks, adapterVars, auxVars>>

NextPM ==
  \/ \E id \in PluginIds : loadPlugin(id)
  \/ \E id \in PluginIds : unloadPlugin(id)
  \/ \E t \in 1..MaxTasks, outcome \in {"ok", "throw"} : onUnloadReturn(t, outcome)
  \/ \E t \in 1..MaxTasks, outcome \in {"record", "stub", "fail"} : moduleReturn(t, outcome)
  \/ \E isCommand \in BOOLEAN : handleMessage(isCommand)
  \/ \E n \in 1..MaxDispatch, r \in Results : onMessageReturn(n, r)
  \/ \E n \in 1..MaxDispatch, r \in Results : onCommandReturn(n, r)

SpecPM == Init /\ [][NextPM]_vars

\* C10: within one handleMessage call the handlers run one after another
\* (only the latest call can be in progress), in registry order; a handler
\* that returns literal true is the last one called and the dispatch ends
\* with handled = true; and when a plugin is called, every plugin registered
\* before it has been called first.
C10_SequentialShortCircuit ==
  \A n \in 1..Len(dispatch) :
    LET d == dispatch[n]
        L == dispatch[n].log IN
    /\ \A k \in 1..Len(L) :
         /\ k < Len(L) => /\ L[k].res # "running"
                          /\ L[k].pos <= L[k + 1].pos
                          /\ L[k + 1].h = "onMessage" => L[k].pos < L[k + 1].pos
         /\ L[k].res = "true" => (k = Len(L) /\ d.pc = "done" /\ d.handled)
         /\ \A i \in 1..(L[k].pos - 1) :
              plugins[i].live =>
                \E j \in 1..(k - 1) : L[j].pos = i /\ L[j].h = "onMessage"
    /\ d.pc = "done" => (d.handled <=> (Len(L) > 0 /\ L[Len(L)].res = "true"))

\* A, B, C registered in that order; A did not handle, B returned true
C10_Witness ==
  /\ Len(plugins) = 3
  /\ \A i \in 1..3 : plugins[i].live
  /\ <<plugins[1].id, plugins[2].id, plugins[3].id>> = <<"A", "B", "C">>
  /\ Len(dispatch) = 1
  /\ dispatch[1].pc = "done"
  /\ dispatch[1].handled
  /\ Len(dispatch[1].log) = 2
  /\ dispatch[1].log[1].id = "A" /\ dispatch[1].log[1].res = "other"
  /\ dispatch[1].log[2].id = "B" /\ dispatch[1].log[2].res = "true"

\* C11: a step in which an awaited handler throws leaves the dispatch not
\* handled and moves it to the next registered plugin, whose onMessage it
\* calls, or ends it normally when there is none; the dispatch never ends
\* by throwing.
C11_ThrowContained ==
  [][\A n \in 1..Len(dispatch) :
       LET d == dispatch[n]
           e == dispatch'[n]
           k == Len(dispatch[n].log)
           i == NextEntry(plugins, dispatch[n].idx + 1) IN
       (d.pc \in {"awaitMsg", "awaitCmd"} /\ e.log[k].res = "throw") =>
         /\ e.handled = FALSE
         /\ IF i = 0
              THEN e.pc = "done" /\ Len(e.log) = k
              ELSE /\ e.pc = "awaitMsg"
                   /\ Len(e.log) = k + 1
                   /\ e.log[k + 1] = Call(i, plugins[i], "onMessage")]_vars

\* a finished dispatch in which a handler threw and a later plugin was called
C11_Witness ==
  \E n \in 1..Len(dispatch) :
    /\ dispatch[n].pc = "done"
    /\ \E k \in 1..(Len(dispatch[n].log) - 1) :
         /\ dispatch[n].log[k].res = "throw"
         /\ dispatch[n].log[k + 1].pos > dispatch[n].log[k].pos
         /\ dispatch[n].log[k + 1].res # "running"

\* instance i is the registered version of some identity
Registered(i) == \E p \in 1..Len(plugins) : plugins[p].live /\ plugins[p].inst = i

\* C12 as stated: while the onUnload of a version has been called by a load
\* or unload of its path, that version is no longer registered, so dispatch
\* cannot reach its onMessage/onCommand; and no identity is registered twice.
C12_UnloadAfterUnreachable ==
  /\ \A t \in 1..Len(tasks) :
       tasks[t].pc = "awaitUnload" => ~Registered(tasks[t].hook)
  /\ \A p, q \in 1..Len(plugins) :
       (plugins[p].live /\ plugins[q].live /\ plugins[p].id = plugins[q].id) => p = q

\* C13 as stated: an unload of a loaded identity that has ended has removed
\* the record and reported the removal (plugin-unloaded is emitted right
\* before unloadPlugin returns true), whatever onUnload did.
C13_UnloadAlwaysRemoves ==
  \A t \in 1..Len(tasks) :
    (tasks[t].kind = "unload" /\ tasks[t].pc = "done" /\ tasks[t].hook # 0) =>
      (tasks[t].result = "true" /\ ~Registered(tasks[t].hook))

\* ---------------------------------------------------------------------
\* Command parsing on its own: every text of Texts is parsed
\* ---------------------------------------------------------------------

parseCommandCall(text) ==
  /\ parsed' = [called |-> TRUE, text |-> text, result |-> parseCommand(text)]
  /\ UNCHANGED <<adapterVars, pmVars, adapted, proc>>

NextParse == \E text \in Texts : parseCommandCall(text)

SpecParse == Init /\ [][NextParse]_vars

\* C14: with the prefixes ["#", ""], "#echo hello world" parses to command
\* "echo" with args ["hello", "world"], and a text that does not start with
\* "#" (such as "hello") is matched by the empty prefix and parses to a
\* command: its first word, with the remaining words as args.
C14_EmptyPrefixMatches ==
  parsed.called =>
    /\ parsed.text = EchoText =>
         /\ parsed.result.isCommand
         /\ parsed.result.command = <<"e", "c", "h", "o">>
         /\ parsed.result.args = <<HelloText, <<"w", "o", "r", "l", "d">> >>
    /\ parsed.text = HelloText =>
         /\ parsed.result.isCommand
         /\ parsed.result.command = HelloText
         /\ parsed.result.args = <<>>
    /\ (~startsWith(parsed.text, <<"#">>) /\ trim(parsed.text) # <<>>) =>
         parsed.result.isCommand

\* ---------------------------------------------------------------------
\* MessageProcessor.process behind the adapter (SpecMP): a message frame
\* arrives on an established socket, is parsed and dispatched, handlers
\* reply through context.reply, and process ends with the unknown-command
\* reply or without it
\* ---------------------------------------------------------------------

\* loadPlugin calls during one run of SpecMP
MaxLoads == 2

\* context.reply calls the handlers make during one process call; the call
\* left over is the one replyUnknownCommand may need
ReplyBudget == MaxCalls - 1

MessageTypes == {"private", "group"}

\* the texts of the inbound messages: "#ping", "hello", "#"
InboundTexts == {PingText, HelloText, <<"#">>}

MessageFrame ==
  [wellFormed |-> TRUE, echo |-> NoEcho, status |-> "none",
   post_type |-> "message", meta_event_type |-> "none", sub_type |-> "none"]

\* context.reply: Bot.sendPrivateMsg for a private message, Bot.sendGroupMsg
\* for every other message type
ReplyAction(messageType) ==
  IF messageType = "private" THEN "send_private_msg" ELSE "send_group_msg"

\* one adapter.send call made through context.reply
Outbound(messageType, by, outcome) ==
  [action |-> ReplyAction(messageType), by |-> by, outcome |-> outcome]

\* `!handled && context.isCommand`
NeedsUnknownReply_always(handled, isCommand) == isCommand

NeedsUnknownReply(handled, isCommand) == ~handled /\ isCommand

\* the 'message' listener of the socket down to MessageProcessor.process,
\* up to the suspension of process at `await handleMessage(context)`
process(s, messageType, text) ==
  /\ proc.pc = "idle"
  /\ frameReceived(s, MessageFrame)
  /\ LET commandInfo == parseCommand(text) IN
     /\ parsed' = [called |-> TRUE, text |-> text, result |-> commandInfo]
     /\ dispatch' = Append(dispatch, StartDispatch(commandInfo.isCommand))
     /\ proc' = [pc |-> "awaitDispatch", n |-> Len(dispatch) + 1,
                 messageType |-> messageType, text |-> text,
                 isCommand |-> commandInfo.isCommand, outbound |-> <<>>]
  /\ UNCHANGED <<plugins, ninst, tasks, adapted>>

\* the handler in progress calls context.reply
contextReply ==
  /\ proc.pc = "awaitDispatch"
  /\ dispatch[proc.n].pc \in {"awaitMsg", "awaitCmd"}
  /\ HasHook(dispatch[proc.n].cur.shape)
  /\ Len(proc.outbound) < ReplyBudget
  /\ sendRequest(TRUE)
  /\ proc' = [proc EXCEPT !.outbound =
                Append(@, Outbound(proc.messageType, "plugin", last'.outcome))]
  /\ UNCHANGED <<pmVars, parsed, adapted>>

\* process resumed when handleMessage has returned `handled`
processReturn ==
  /\ proc.pc = "awaitDispatch"
  /\ dispatch[proc.n].pc = "done"
  /\ IF NeedsUnknownReply(dispatch[proc.n].handled, proc.isCommand)
       THEN /\ sendRequest(TRUE)
            /\ proc' = [proc EXCEPT !.pc = "done", !.outbound =
                 Append(@, Outbound(proc.messageType, "framework", last'.outcome))]
       ELSE /\ proc' = [proc EXCEPT !.pc = "done"]
            /\ UNCHANGED adapterVars
  /\ UNCHANGED <<pmVars, parsed, adapted>>

NextMP ==
  \/ connect
  \/ \E s \in Created : wsOpen(s)
  \/ \E id \in PluginIds : loadPluginUpTo(id, MaxLoads)
  \/ \E t \in 1..MaxLoads, outcome \in {"ok", "throw"} : onUnloadReturn(t, outcome)
  \/ \E t \in 1..MaxLoads, outcome \in {"record", "stub", "fail"} : moduleReturn(t, outcome)
  \/ \E s \in Created, messageType \in MessageTypes, text \in InboundTexts :
       process(s, messageType, text)
  \/ \E r \in Results : onMessageReturn(1, r)
  \/ \E r \in Results : onCommandReturn(1, r)
  \/ contextReply
  \/ processReturn

SpecMP == Init /\ [][NextMP]_vars

\* the adapter.send calls the handlers made during the process call
PluginReplies == {k \in 1..Len(proc.outbound) : proc.outbound[k].by = "plugin"}

\* C15: when the dispatch of an inbound message reported handled, process
\* makes no outbound call of its own (no unknown-command reply): the outbound
\* calls are exactly the replies of the handlers, send_group_msg for a group
\* message, so a plugin that replied once leaves exactly one outbound call.
C15_HandledNoFurtherReply ==
  (proc.pc = "done" /\ dispatch[proc.n].handled) =>
    /\ \A k \in 1..Len(proc.outbound) :
         /\ proc.outbound[k].by = "plugin"
         /\ proc.messageType = "group" => proc.outbound[k].action = "send_group_msg"
    /\ Cardinality(PluginReplies) = 1 => Len(proc.outbound) = 1

\* "#ping" in a group, one loaded plugin whose onCommand replied once and
\* returned true: handled, and one outbound send_group_msg that was sent
C15_Witness ==
  /\ proc.pc = "done"
  /\ proc.text = PingText
  /\ proc.messageType = "group"
  /\ Cardinality({p \in 1..Len(plugins) : plugins[p].live}) = 1
  /\ dispatch[proc.n].handled
  /\ Len(dispatch[proc.n].log) = 2
  /\ dispatch[proc.n].log[1].res = "other"
  /\ dispatch[proc.n].log[2].h = "onCommand"
  /\ dispatch[proc.n].log[2].res = "true"
  /\ proc.outbound = <<[action |-> "send_group_msg", by |-> "plugin",
                        outcome |-> "pending"]>>

\* ---------------------------------------------------------------------
\* Plugin adaptation on its own: every module of Modules is adapted
\* ---------------------------------------------------------------------

\* one module is adapted in a run
initializePluginCall(m) ==
  /\ ~adapted.called
  /\ adapted' = [called |-> TRUE, module |-> m, result |-> initializePlugin(m)]
  /\ UNCHANGED <<adapterVars, pmVars, parsed, proc>>

NextSandbox == \E m \in Modules : initializePluginCall(m)

SpecSandbox == Init /\ [][NextSandbox]_vars

\* the value is a handler record or a legacy main record, or a factory that
\* returns one
IsPluginShape(v) ==
  \/ v.kind = "object" /\ v.hooks # {}
  \/ v.kind = "function" /\ v.ret = "object" /\ v.retHooks # {}

\* C16: whenever the module carries no handler record and no legacy main
\* record (its export is null, a primitive, an empty object, or a callable
\* returning something that is no record), initializePlugin does not throw,
\* so the load succeeds, and the onMessage of the registered instance can
\* only report not handled.
C16_AdaptNeverFails ==
  (/\ adapted.called
   /\ ~IsPluginShape(adapted.module.value)
   /\ adapted.module.named = {}) =>
    /\ adapted.result.outcome # "fail"
    /\ adapted.result.onMessage = {"other"}

\* C17: in the dispatch of a command context, every onMessage call that
\* ended without reporting handled (it returned a non-true value or threw)
\* is followed by the onCommand call of the same plugin, when that plugin
\* has one; in the dispatch of a non-command context there is no onCommand
\* call at all.
C17_CommandIndependent ==
  \A n \in 1..Len(dispatch) :
    LET d == dispatch[n] IN
    \A k \in 1..Len(d.log) :
      /\ d.log[k].h = "onCommand" => d.isCommand
      /\ (/\ d.isCommand
          /\ d.log[k].h = "onMessage"
          /\ d.log[k].res \in {"other", "throw"}
          /\ HasHook(d.log[k].shape)) =>
           /\ k < Len(d.log)
           /\ d.log[k + 1].h = "onCommand"
           /\ d.log[k + 1].inst = d.log[k].inst

\* the last entry of the registry in iteration order, 0 when it is empty
LastEntry(m) ==
  LET c == {i \in 1..Len(m) : m[i].live} IN
  IF c = {} THEN 0 ELSE CHOOSE i \in c : \A j \in c : j <= i

\* C18: a dispatch visits the plugins in increasing registry position, and
\* when a reload of a loaded identity (a load that called the old version's
\* onUnload) registers the new version, that identity is the last one in the
\* registry order, whether onUnload returned or threw.
C18_ReloadMovesToEnd ==
  [][/\ \A n \in 1..Len(dispatch) :
          \A j, k \in 1..Len(dispatch[n].log) :
            j < k => dispatch[n].log[j].pos <= dispatch[n].log[k].pos
     /\ \A t \in 1..Len(tasks) :
          (/\ tasks[t].kind = "load"
           /\ tasks[t].hook # 0
           /\ tasks[t].pc = "awaitModule"
           /\ tasks'[t].pc = "done"
           /\ tasks'[t].result = "true") =>
            /\ LastEntry(plugins') # 0
            /\ plugins'[LastEntry(plugins')].inst = tasks'[t].inst]_vars

\* the load or unload started by a watcher notification has not completed
InFlight(t) == tasks[t].pc # "done"

\* C19: the notifications for one identity are processed one at a time: no
\* two loads or unloads of the same identity are ever in flight together.
C19_ReloadsSerialized ==
  \A t, u \in 1..Len(tasks) :
    (t # u /\ tasks[t].id = tasks[u].id) => ~(InFlight(t) /\ InFlight(u))

\* ---------------------------------------------------------------------
\* Several inbound messages (SpecConc): the 'message' listener of the bot
\* starts Bot.handleMessage for each frame without waiting for the previous
\* one, so handleMessage calls of the plugin manager overlap
\* ---------------------------------------------------------------------

\* handleMessage calls during one run of SpecConc
MaxConcurrent == 2

NextConc ==
  \/ \E id \in PluginIds : loadPluginUpTo(id, MaxLoads)
  \/ \E t \in 1..MaxLoads, outcome \in {"ok", "throw"} : onUnloadReturn(t, outcome)
  \/ \E t \in 1..MaxLoads, outcome \in {"record", "stub", "fail"} : moduleReturn(t, outcome)
  \/ \E isCommand \in BOOLEAN : handleMessageUpTo(isCommand, MaxConcurrent)
  \/ \E n \in 1..MaxConcurrent, r \in Results : onMessageReturn(n, r)
  \/ \E n \in 1..MaxConcurrent, r \in Results : onCommandReturn(n, r)

SpecConc == Init /\ [][NextConc]_vars

\* the handler calls in progress: <<call site, plugin identity>>
Running ==
  {<<"dispatch", n, dispatch[n].cur.id>> :
     n \in {m \in 1..Len(dispatch) : dispatch[m].pc \in {"awaitMsg", "awaitCmd"}}}
  \cup
  {<<"unload", t, tasks[t].id>> :
     t \in {u \in 1..Len(tasks) : tasks[u].pc = "awaitUnload"}}

\* C20: no two handler calls of the same plugin identity are in progress at
\* the same time.
C20_NoConcurrentHandlers ==
  \A a, b \in Running : a[3] = b[3] => a = b

\* a reload in flight: a load that found the identity registered and called
\* the old version's onUnload, and has not completed
Reloading(t) ==
  tasks[t].kind = "load" /\ tasks[t].hook # 0 /\ tasks[t].pc # "done"

\* the instances the loads of the run have registered
RegisteredOnce == {tasks[t].inst : t \in {u \in 1..Len(tasks) :
                     tasks[u].kind = "load" /\ tasks[u].result = "true"}}

\* C21: whenever a dispatch reads the registry (it starts, or its loop moves
\* on to the next entry) while a reload of an identity is in flight, that
\* identity is registered, with the old or the new record; and the record a
\* dispatch picks up is always one a completed load has registered.
C21_ReloadAtomic ==
  [][\A n \in 1..Len(dispatch') :
       LET started == n > Len(dispatch)
           moved == /\ ~started
                    /\ dispatch[n].pc \in {"awaitMsg", "awaitCmd"}
                    /\ \/ dispatch'[n].idx # dispatch[n].idx
                       \/ dispatch'[n].pc = "done" /\ ~dispatch'[n].handled IN
       (started \/ moved) =>
         /\ \A t \in 1..Len(tasks) : Reloading(t) => Has(plugins, tasks[t].id)
         /\ dispatch'[n].pc # "done" => dispatch'[n].cur.inst \in RegisteredOnce]_vars

\* C22: the closure of a socket that disconnect() itself closed (the socket
\* is in its closing handshake, or its connection attempt was aborted)
\* schedules no reconnect attempt and starts none: the adapter stays
\* disconnected until connect() is called again.
C22_NoReconnectAfterDisconnect ==
  [][\A s \in Created :
       (sockets[s].st \in {"closing", "aborted"} /\ sockets'[s].st = "closed") =>
         /\ reconnectTimers' <= reconnectTimers
         /\ Len(sockets') = Len(sockets)]_vars

\* the reconnect attempts outstanding: timers set by reconnect() that have
\* not fired, and sockets created by a timer that are still connecting
OutstandingAttempts ==
  reconnectTimers
    + Cardinality({s \in Created : /\ sockets[s].origin = "reconnect"
                                   /\ sockets[s].st = "connecting"})

\* the sockets whose listeners can still run
LiveSockets == {s \in Created : sockets[s].st \in {"connecting", "open"}}

\* C23: whatever closures and reconnect attempts have happened, at most one
\* reconnect attempt is outstanding and at most one socket is live.
C23_OneAttemptOutstanding ==
  /\ OutstandingAttempts <= 1
  /\ Cardinality(LiveSockets) <= 1

\* C24: within one handleMessage call the onMessage of a plugin identity is
\* called at most once, whatever loads and unloads complete in the meantime.
C24_OnMessageOncePerPass ==
  \A n \in 1..Len(dispatch) :
    \A j, k \in 1..Len(dispatch[n].log) :
      (/\ dispatch[n].log[j].h = "onMessage"
       /\ dispatch[n].log[k].h = "onMessage"
       /\ dispatch[n].log[j].id = dispatch[n].log[k].id) => j = k

====
